---- MODULE Spec2Model ----
(***************************************************************************)
(* A model of the enrichment core of tei-littre: the role classifier       *)
(* (classify_indents.py), the locution extractor (extract_locutions.py)    *)
(* and the scope resolver (scope_transitions.py), over the sense tree of   *)
(* model.py (Entry -> Variante -> Indent); with them the review flag       *)
(* collector (collect_flags.py), the author resolver (resolve_authors.py)  *)
(* and the identifiers emit_tei writes (emit_tei.py).                      *)
(*                                                                         *)
(* Markup content is a sequence of tokens.  A token is either a run of     *)
(* plain text or one whole inline element (the parser serialises inline    *)
(* elements whole, parse.py:36-38 and 80-85).  Tokens are joined by one    *)
(* blank, except that no blank precedes a comma.                           *)
(***************************************************************************)
EXTENDS Integers, Sequences, FiniteSets, TLC

VARIABLES pc, entry, entry0, entries, log, counts, flags, random_state

vars == <<pc, entry, entry0, entries, log, counts, flags, random_state>>

(***************************************************************************)
(* Bounds of the model.                                                    *)
(***************************************************************************)
MaxVars == 4
MaxIndents == 4

(***************************************************************************)
(* Generic helpers.                                                        *)
(***************************************************************************)
Last(s) == s[Len(s)]

Front(s) == SubSeq(s, 1, Len(s) - 1)

MinOf(S) == CHOOSE x \in S : \A y \in S : x <= y

RECURSIVE Flatten(_)
Flatten(ss) == IF ss = <<>> THEN <<>> ELSE Head(ss) \o Flatten(Tail(ss))

SeqsUpTo(S, n) == UNION {[1..k -> S] : k \in 0..n}

Range(s) == {s[k] : k \in 1..Len(s)}

(***************************************************************************)
(* model.py: roles, methods and the constructors of the tree's nodes.      *)
(***************************************************************************)
IndentRole ==
  {"unknown", "figurative", "domain", "nature_label", "cross_reference",
   "register_label", "proverb", "voice_transition", "locution",
   "constructional", "elaboration", "continuation"}

ClassificationMethod == {"deterministic", "heuristic", "llm", "manual"}

\* None, for classification_method.
None == "None"

\* None, for classification_confidence (a set confidence is never negative).
NoConfidence == -1

\* Indent(content, citations, children): the dataclass defaults of the other
\* fields.  id stands for the object's identity.  A confidence is kept in
\* hundredths (1.0 is 100).
Indent(id, content, citations, children) ==
  [id |-> id, content |-> content, citations |-> citations,
   children |-> children, role |-> "unknown",
   classification_method |-> None,
   classification_confidence |-> NoConfidence,
   canonical_form |-> <<>>]

\* Variante(content, indents): a sense.  The transition fields and
\* sub_variantes are those of a scope container; they are empty on every
\* other Variante.
Variante(id, content, indents) ==
  [id |-> id, content |-> content, indents |-> indents,
   transition_type |-> "", transition_content |-> <<>>,
   transition_form |-> <<>>, transition_pos |-> <<>>,
   sub_variantes |-> <<>>]

Entry(headword, body) == [headword |-> headword, body_variantes |-> body]

ScopeLog ==
  [strong_scoped |-> 0, medium_scoped |-> 0, intra_grouped |-> 0,
   zero_scope |-> 0, ambiguous |-> <<>>]

\* The counts extract_all returns, before it has run.
NoCounts == [extracted |-> 0, reclassified |-> 0, skipped |-> 0]

(***************************************************************************)
(* Markup tokens.  An element token stands for one whole inline element,   *)
(* a text token for a run of plain text:                                   *)
(*   "<semantique:indicateur>Fig."                                         *)
(*        <semantique type="indicateur">Fig.</semantique>                  *)
(*   "<semantique:domaine>"                                                *)
(*        <semantique type="domaine">Terme de marine.</semantique>         *)
(*   "<nature>"    <nature>V. refl.</nature>                               *)
(*   "<a ref>"     <a ref="garder">GARDER</a>                              *)
(*   "<exemple>"   <exemple>Avoir beau jeu</exemple>                       *)
(*   "v. refl."    v. refl. (with e acute)                                 *)
(*   "V. refl."    V. refl. (with e acute)                                 *)
(*   "rester chez soi"   rester chez soi toujours.  (25 characters)        *)
(*   "long text"   a lower-case run of 105 characters                     *)
(* and every other text token is its own text.                             *)
(***************************************************************************)
ElementTokens ==
  {"<semantique:indicateur>Fig.", "<semantique:domaine>", "<nature>",
   "<a ref>", "<exemple>"}

TextTokens ==
  {"Fig.", "voy.", ",", "Prov.", "Par extension", "Absolument.", "Loc.",
   "On dit", "Garder la maison", "S'ABAISSER", "v. refl.", "v. refl",
   "rester chez soi", "long text", "Terme de marine.", "V. refl.", "GARDER",
   "Avoir beau jeu"}

\* The text inside an element token.
InnerText(t) ==
  CASE t = "<semantique:indicateur>Fig." -> "Fig."
    [] t = "<semantique:domaine>" -> "Terme de marine."
    [] t = "<nature>" -> "V. refl."
    [] t = "<a ref>" -> "GARDER"
    [] t = "<exemple>" -> "Avoir beau jeu"

\* The number of characters of a text token.
TextLen(t) ==
  CASE t = "Fig." -> 4
    [] t = "voy." -> 4
    [] t = "," -> 1
    [] t = "Prov." -> 5
    [] t = "Par extension" -> 13
    [] t = "Absolument." -> 11
    [] t = "Loc." -> 4
    [] t = "On dit" -> 6
    [] t = "Garder la maison" -> 16
    [] t = "S'ABAISSER" -> 10
    [] t = "v. refl." -> 8
    [] t = "v. refl" -> 7
    [] t = "rester chez soi" -> 25
    [] t = "long text" -> 105
    [] t = "Terme de marine." -> 16
    [] t = "V. refl." -> 8
    [] t = "GARDER" -> 6
    [] t = "Avoir beau jeu" -> 14

\* The number of characters of a token of the markup, tags included.
RawLen(t) ==
  CASE t = "<semantique:indicateur>Fig." -> 47
    [] t = "<semantique:domaine>" -> 56
    [] t = "<nature>" -> 25
    [] t = "<a ref>" -> 26
    [] t = "<exemple>" -> 33
    [] OTHER -> TextLen(t)

\* len() of the string a token sequence stands for: the tokens joined by one
\* blank, with no blank before a comma.
RECURSIVE JoinLen(_, _)
JoinLen(toks, raw) ==
  IF toks = <<>> THEN 0
  ELSE (IF raw THEN RawLen(Head(toks)) ELSE TextLen(Head(toks)))
       + (IF Len(toks) > 1 /\ toks[2] # "," THEN 1 ELSE 0)
       + JoinLen(Tail(toks), raw)

\* classify_indents.py strip_tags: every tag removed, the text kept.
strip_tags(markup) ==
  [k \in 1..Len(markup) |->
     IF markup[k] \in ElementTokens THEN InnerText(markup[k]) ELSE markup[k]]

(***************************************************************************)
(* scope_transitions.py                                                    *)
(***************************************************************************)
\* Text tokens that match S'[A-Z].+ and [A-Z][A-Z '-]+ (a form in capitals).
ReflexiveForms == {"S'ABAISSER"}

CapitalForms == {"S'ABAISSER", "GARDER"}

\* Text tokens that match v\.\s*.+ (the part of speech of a strong label).
VerbMarkers == {"v. refl.", "v. refl"}

\* The places of plain where a comma is followed by a verb marker.
MarkerCommas(plain) ==
  {k \in 2..(Len(plain) - 1) : plain[k] = "," /\ plain[k + 1] \in VerbMarkers}

\* The None of parse_strong_transition.
NoMatch == [matched |-> FALSE, form |-> <<>>, pos |-> <<>>]

\* parse_strong_transition: strong_transition_pattern first (its first group
\* is greedy: the form runs to the last comma a verb marker follows, and the
\* part of speech is the rest of the text), then form_pos_pattern (capitals
\* up to the first comma, and the marker up to its word boundary).
parse_strong_transition(plain) ==
  IF plain # <<>> /\ plain[1] \in ReflexiveForms /\ MarkerCommas(plain) # {}
  THEN LET k == CHOOSE x \in MarkerCommas(plain) :
                  \A y \in MarkerCommas(plain) : y <= x
       IN  [matched |-> TRUE, form |-> SubSeq(plain, 1, k - 1),
            pos |-> SubSeq(plain, k + 1, Len(plain))]
  ELSE IF /\ MarkerCommas(plain) # {}
          /\ \A j \in 1..(MinOf(MarkerCommas(plain)) - 1) :
               plain[j] \in CapitalForms
       THEN LET k == MinOf(MarkerCommas(plain))
            IN  [matched |-> TRUE, form |-> SubSeq(plain, 1, k - 1),
                 pos |-> <<"v. refl">>]
       ELSE NoMatch

IsLabel(indent) == indent.role \in {"nature_label", "voice_transition"}

\* intra_next_label without the break of lines 70-71.
intra_next_label_no_break(indents, j) == Len(indents) + 1

\* scope_intra_variante, the inner loop (lines 68-73): the first place from j
\* on that holds a label, or the end of the list.
RECURSIVE intra_next_label(_, _)
intra_next_label(indents, j) ==
  IF j > Len(indents) \/ IsLabel(indents[j]) THEN j
  ELSE intra_next_label(indents, j + 1)

\* intra_resume without the skip over the followers.
intra_resume_no_skip(i, j) == i + 1

\* Line 78: where the scan resumes after a label took its followers.
intra_resume(i, j) == j

\* scope_intra_variante, the outer loop (lines 63-81).
RECURSIVE intra_loop(_, _, _, _)
intra_loop(indents, i, new_indents, grouped) ==
  IF i > Len(indents) THEN [indents |-> new_indents, grouped |-> grouped]
  ELSE LET indent == indents[i]
           j == intra_next_label(indents, i + 1)
           followers == SubSeq(indents, i + 1, j - 1)
       IN  IF IsLabel(indent) /\ i < Len(indents) /\ followers # <<>>
           THEN intra_loop(indents, intra_resume(i, j),
                  Append(new_indents,
                         [indent EXCEPT !.children = @ \o followers]),
                  grouped + Len(followers))
           ELSE intra_loop(indents, i + 1, Append(new_indents, indent),
                           grouped)

\* scope_intra_variante adding one for a Variante in which Indents were
\* moved, not their number.
scope_intra_variante_counting_once(variante, lg) ==
  IF Len(variante.indents) < 2 THEN [variante |-> variante, log |-> lg]
  ELSE LET r == intra_loop(variante.indents, 1, <<>>, 0)
       IN  [variante |-> [variante EXCEPT !.indents = r.indents],
            log |-> [lg EXCEPT !.intra_grouped =
                       @ + (IF r.grouped > 0 THEN 1 ELSE 0)]]

\* scope_intra_variante(variante, log): the variante and the log after it.
scope_intra_variante(variante, lg) ==
  IF Len(variante.indents) < 2 THEN [variante |-> variante, log |-> lg]
  ELSE LET r == intra_loop(variante.indents, 1, <<>>, 0)
       IN  [variante |-> [variante EXCEPT !.indents = r.indents],
            log |-> [lg EXCEPT !.intra_grouped = @ + r.grouped]]

\* ends_in_bare_transition without the test for citations.
ends_in_bare_transition_cited_too(var) ==
  /\ var.indents # <<>>
  /\ Last(var.indents).role = "voice_transition"

\* The test of lines 98-108 and 123-126: the last Indent is a
\* voice_transition without citations.
ends_in_bare_transition(var) ==
  /\ var.indents # <<>>
  /\ Last(var.indents).role = "voice_transition"
  /\ Last(var.indents).citations = <<>>

\* scope_end_of without the break at the next boundary.
scope_end_of_whole_tail(remaining) == Len(remaining)

\* Lines 121-128: the place (from 0) of the next boundary in remaining, or
\* len(remaining).
scope_end_of(remaining) ==
  LET ks == {k \in 1..Len(remaining) : ends_in_bare_transition(remaining[k])}
  IN  IF ks = {} THEN Len(remaining) ELSE MinOf(ks) - 1

\* is_zero_scope without the test of line 130.
is_zero_scope_only_at_end(remaining, scope_end) == remaining = <<>>

\* Lines 112 and 130: nothing follows, or the next Variante is a boundary.
is_zero_scope(remaining, scope_end) == remaining = <<>> \/ scope_end = 0

\* Line 136: the governed run.
scoped_run(remaining, scope_end) == SubSeq(remaining, 1, scope_end)

\* resume_index without the skip over the governed run.
resume_index_no_skip(i, scope_end) == i + 1

\* Line 162: where the scan resumes after a scope.
resume_index(i, scope_end) == i + 1 + scope_end

\* Flagged for audit above this many governed Variantes (line 156).
LargeScope == 15

\* make_container with the form and the part of speech exchanged.
make_container_swapped(var, transition, parsed, scoped) ==
  [Variante(0 - var.id, <<>>, <<>>) EXCEPT
     !.transition_content = transition.content,
     !.sub_variantes = scoped,
     !.transition_type = IF parsed.matched THEN "strong" ELSE "medium",
     !.transition_form = IF parsed.matched THEN parsed.pos ELSE @,
     !.transition_pos = IF parsed.matched THEN parsed.form ELSE @]

\* make_container with the label kept as the container's Indent.
make_container_keeping_label(var, transition, parsed, scoped) ==
  [Variante(0 - var.id, <<>>, <<transition>>) EXCEPT
     !.transition_content = transition.content,
     !.sub_variantes = scoped,
     !.transition_type = IF parsed.matched THEN "strong" ELSE "medium",
     !.transition_form = IF parsed.matched THEN parsed.form ELSE @,
     !.transition_pos = IF parsed.matched THEN parsed.pos ELSE @]

\* Lines 142-154: the container of a scope.
make_container(var, transition, parsed, scoped) ==
  [Variante(0 - var.id, <<>>, <<>>) EXCEPT
     !.transition_content = transition.content,
     !.sub_variantes = scoped,
     !.transition_type = IF parsed.matched THEN "strong" ELSE "medium",
     !.transition_form = IF parsed.matched THEN parsed.form ELSE @,
     !.transition_pos = IF parsed.matched THEN parsed.pos ELSE @]

\* scope_inter_variante, the loop of lines 95-162.
RECURSIVE inter_loop(_, _, _, _, _)
inter_loop(headword, body, i, new_body, lg) ==
  IF i > Len(body) THEN [body |-> new_body, log |-> lg]
  ELSE LET var == body[i]
           transition == Last(var.indents)
           plain == strip_tags(transition.content)
           remaining == SubSeq(body, i + 1, Len(body))
           parsed == parse_strong_transition(plain)
           scope_end == scope_end_of(remaining)
           scoped == scoped_run(remaining, scope_end)
       IN  IF ~ends_in_bare_transition(var)
           THEN inter_loop(headword, body, i + 1, Append(new_body, var), lg)
           ELSE IF is_zero_scope(remaining, scope_end)
           THEN inter_loop(headword, body, i + 1, Append(new_body, var),
                           [lg EXCEPT !.zero_scope = @ + 1])
           ELSE inter_loop(headword, body, resume_index(i, scope_end),
                  new_body \o
                    << [var EXCEPT !.indents = Front(var.indents)],
                       make_container(var, transition, parsed, scoped) >>,
                  [lg EXCEPT
                     !.strong_scoped =
                        IF parsed.matched THEN @ + Len(scoped) ELSE @,
                     !.medium_scoped =
                        IF parsed.matched THEN @ ELSE @ + Len(scoped),
                     !.ambiguous =
                        IF Len(scoped) > LargeScope
                        THEN Append(@, [headword |-> headword,
                                        plain |-> plain,
                                        scoped |-> Len(scoped)])
                        ELSE @])

\* scope_inter_variante(entry, log): the entry and the log after it.
scope_inter_variante(e, lg) ==
  IF e.body_variantes = <<>> THEN [entry |-> e, log |-> lg]
  ELSE LET r == inter_loop(e.headword, e.body_variantes, 1, <<>>, lg)
       IN  [entry |-> [e EXCEPT !.body_variantes = r.body], log |-> r.log]

\* scope_all, lines 174-175: the intra-variante pass on each Variante of a
\* sub_variantes list, in order.
RECURSIVE intra_subs(_, _, _)
intra_subs(subs, k, lg) ==
  IF k > Len(subs) THEN [variantes |-> subs, log |-> lg]
  ELSE LET r == scope_intra_variante(subs[k], lg)
       IN  intra_subs([subs EXCEPT ![k] = r.variante], k + 1, r.log)

\* scope_all, lines 172-175: the intra-variante pass on every top-level
\* Variante and, after each, on its sub_variantes.
RECURSIVE intra_over(_, _, _)
intra_over(variantes, k, lg) ==
  IF k > Len(variantes) THEN [variantes |-> variantes, log |-> lg]
  ELSE LET r == scope_intra_variante(variantes[k], lg)
           subs == intra_subs(r.variante.sub_variantes, 1, r.log)
       IN  intra_over(
             [variantes EXCEPT ![k] =
                [r.variante EXCEPT !.sub_variantes = subs.variantes]],
             k + 1, subs.log)

\* scope_all, for one entry (lines 171-175): the entry and the log after it.
scope_all(e, lg) ==
  LET inter == scope_inter_variante(e, lg)
      intra == intra_over(inter.entry.body_variantes, 1, inter.log)
  IN  [entry |-> [inter.entry EXCEPT !.body_variantes = intra.variantes],
       log |-> intra.log]

(***************************************************************************)
(* Input trees of the scope resolver: Indents as the classifier and the    *)
(* extractor leave them.                                                   *)
(***************************************************************************)
Citation(author) == [author |-> author, resolved_author |-> ""]

\* Classified without the method and the confidence.
Classified_role_only(indent, role, method, confidence) ==
  [indent EXCEPT !.role = role]

Classified(indent, role, method, confidence) ==
  [indent EXCEPT !.role = role, !.classification_method = method,
                 !.classification_confidence = confidence]

\* The Indent of a kind, with identity id.  A child of a classified Indent
\* is left unclassified by classify_indent.
IndentOfKind(kind, id) ==
  CASE kind = "medium" ->
         Classified(Indent(id, <<"Absolument.">>, <<>>, <<>>),
                    "voice_transition", "heuristic", 85)
    [] kind = "strong" ->
         Classified(Indent(id, <<"S'ABAISSER", ",", "v. refl.">>, <<>>, <<>>),
                    "voice_transition", "heuristic", 90)
    [] kind = "cited" ->
         Classified(Indent(id, <<"Absolument.">>, <<Citation("MOL.")>>, <<>>),
                    "voice_transition", "heuristic", 85)
    [] kind = "parent" ->
         Classified(Indent(id, <<"Absolument.">>, <<>>,
                           << Indent(10 * id, <<"Prov.">>, <<>>, <<>>) >>),
                    "voice_transition", "heuristic", 85)
    [] kind = "nature" ->
         Classified(Indent(id, <<"<nature>">>, <<>>, <<>>),
                    "nature_label", "deterministic", 100)
    [] kind = "plain" ->
         Classified(Indent(id, <<"rester chez soi">>, <<>>, <<>>),
                    "elaboration", "heuristic", 40)
    [] kind = "example" ->
         Classified(Indent(id, <<"long text">>, <<Citation("MOL.")>>, <<>>),
                    "continuation", "heuristic", 50)

\* The Variante number v of an entry, with the Indents of the given kinds.
VarianteOfShape(shape, v) ==
  Variante(v, <<"rester chez soi">>,
           [k \in 1..Len(shape) |-> IndentOfKind(shape[k], 10 * v + k)])

BodyOfShapes(shapes) ==
  [v \in 1..Len(shapes) |-> VarianteOfShape(shapes[v], v)]

\* The Indent lists the inter-variante pass is run on.
InterShapes ==
  { <<>>, <<"medium">>, <<"strong">>, <<"cited">>, <<"parent">>,
    <<"nature">>, <<"plain">>, <<"plain", "medium">>, <<"medium", "plain">>,
    <<"medium", "medium">> }

\* The kinds of Indent the intra-variante pass is run on.
IntraKinds == {"nature", "parent", "plain", "example"}

(***************************************************************************)
(* The inter-variante pass on one entry.                                   *)
(***************************************************************************)
InterInit ==
  /\ \E shapes \in SeqsUpTo(InterShapes, MaxVars) :
       entry = Entry("TEST", BodyOfShapes(shapes))
  /\ entry0 = entry
  /\ log = ScopeLog
  /\ counts = NoCounts
  /\ flags = <<>>
  /\ random_state = 0
  /\ entries = <<>>
  /\ pc = "enriched"

ScopeInterVariante ==
  /\ pc = "enriched"
  /\ LET r == scope_inter_variante(entry, log)
     IN  entry' = r.entry /\ log' = r.log
  /\ pc' = "inter"
  /\ UNCHANGED <<entry0, counts, flags, random_state, entries>>

\* scope_inter_variante applied once more to the entry it has processed.
ScopeInterVarianteAgain ==
  /\ pc = "inter"
  /\ LET r == scope_inter_variante(entry, log)
     IN  entry' = r.entry /\ log' = r.log
  /\ pc' = "inter2"
  /\ UNCHANGED <<entry0, counts, flags, random_state, entries>>

InterNext == ScopeInterVariante \/ ScopeInterVarianteAgain

SpecInter == InterInit /\ [][InterNext]_vars

(***************************************************************************)
(* The intra-variante pass on one Variante.                                *)
(***************************************************************************)
IntraInit ==
  /\ \E shape \in SeqsUpTo(IntraKinds, MaxIndents) :
       entry = Entry("TEST", BodyOfShapes(<<shape>>))
  /\ entry0 = entry
  /\ log = ScopeLog
  /\ counts = NoCounts
  /\ flags = <<>>
  /\ random_state = 0
  /\ entries = <<>>
  /\ pc = "enriched"

ScopeIntraVariante ==
  /\ pc = "enriched"
  /\ \E v \in 1..Len(entry.body_variantes) :
       LET r == scope_intra_variante(entry.body_variantes[v], log)
       IN  /\ entry' = [entry EXCEPT !.body_variantes[v] = r.variante]
           /\ log' = r.log
  /\ pc' = "intra"
  /\ UNCHANGED <<entry0, counts, flags, random_state, entries>>

\* scope_intra_variante applied once more to the Variante it has
\* processed.
ScopeIntraVarianteAgain ==
  /\ pc = "intra"
  /\ \E v \in 1..Len(entry.body_variantes) :
       LET r == scope_intra_variante(entry.body_variantes[v], log)
       IN  /\ entry' = [entry EXCEPT !.body_variantes[v] = r.variante]
           /\ log' = r.log
  /\ pc' = "intra2"
  /\ UNCHANGED <<entry0, counts, flags, random_state, entries>>

IntraNext == ScopeIntraVariante \/ ScopeIntraVarianteAgain

SpecIntra == IntraInit /\ [][IntraNext]_vars

(***************************************************************************)
(* classify_indents.py                                                     *)
(***************************************************************************)
\* The thresholds of the classifier, in characters.
ShortCrossRef == 120

CrossRefGap == 40

PhraseMax == 100

ElaborationMin == 20

\* Text tokens a pattern matches at the start of the text.
SeePrefixes == {"voy.", "V. refl.", "v. refl.", "v. refl"}

ProverbPrefixes == {"Prov."}

RegisterPrefixes == {"Par extension"}

VoicePrefixes == {"Absolument.", "V. refl."}

DefinitionPrefixes == {"On dit", "Terme de marine."}

CrossRefOpeners == {"On dit"}

FigPrefixes == {"Fig."}

PronounPrefixes == {"On dit"}

\* Text tokens that begin with a capital A-Z.
Capitalised ==
  {"Fig.", "Prov.", "Par extension", "Absolument.", "Loc.", "On dit",
   "Garder la maison", "S'ABAISSER", "Terme de marine.", "V. refl.",
   "GARDER", "Avoir beau jeu"}

StartsWith(toks, prefixes) == toks # <<>> /\ toks[1] \in prefixes

Contains(toks, t) == \E k \in 1..Len(toks) : toks[k] = t

\* ,\s*voy\.\s*$
EndsWithCommaVoy(plain) ==
  /\ Len(plain) >= 2
  /\ plain[Len(plain)] = "voy."
  /\ plain[Len(plain) - 1] = ","

\* locution_intro_pattern, matched against the markup: <exemple> first, or
\* "Loc." and a blank.
locution_intro(c) ==
  \/ StartsWith(c, {"<exemple>"})
  \/ c # <<>> /\ c[1] = "Loc." /\ Len(c) >= 2 /\ c[2] # ","

\* The number of characters of the markup before its token j.
OffsetOf(c, j) ==
  JoinLen(SubSeq(c, 1, j - 1), TRUE) + (IF j > 1 /\ c[j] # "," THEN 1 ELSE 0)

\* cross_ref_heuristic, matched against the markup: an opener, then a link
\* that starts at most CrossRefGap characters after it.
cross_ref_heuristic(c) ==
  /\ StartsWith(c, CrossRefOpeners)
  /\ \E j \in 2..Len(c) :
       c[j] = "<a ref>" /\ OffsetOf(c, j) - RawLen(c[1]) <= CrossRefGap

\* Lines 146-152: short, without citations, with a comma, capitalised and
\* not opened by a pronoun or an article.
phrase_shape(plain, citations) ==
  /\ JoinLen(plain, FALSE) < PhraseMax
  /\ citations = <<>>
  /\ Contains(plain, ",")
  /\ StartsWith(plain, Capitalised)
  /\ ~StartsWith(plain, PronounPrefixes)

NoRole == [role |-> "unknown", method |-> None, confidence |-> NoConfidence]

Rule(role, method, confidence) ==
  [role |-> role, method |-> method, confidence |-> confidence]

\* classify_deterministic: what it assigns (NoRole when it returns False).
classify_deterministic(indent) ==
  LET c == indent.content
      plain == strip_tags(c)
  IN  IF Contains(c, "<semantique:indicateur>Fig.")
      THEN Rule("figurative", "deterministic", 100)
      ELSE IF Contains(c, "<semantique:domaine>")
      THEN Rule("domain", "deterministic", 100)
      ELSE IF Contains(c, "<nature>")
      THEN Rule("nature_label", "deterministic", 100)
      ELSE IF Contains(c, "<a ref>") /\ JoinLen(plain, FALSE) < ShortCrossRef
      THEN IF StartsWith(plain, SeePrefixes)
           THEN Rule("cross_reference", "deterministic", 100)
           ELSE IF EndsWithCommaVoy(plain)
           THEN Rule("cross_reference", "deterministic", 95)
           ELSE NoRole
      ELSE NoRole

\* classify_heuristic with the phrase-shape locution at 0.5 (line 151).
classify_heuristic_phrase_at_half(indent) ==
  LET c == indent.content
      plain == strip_tags(c)
  IN  IF StartsWith(plain, ProverbPrefixes)
      THEN Rule("proverb", "heuristic", 90)
      ELSE IF StartsWith(plain, RegisterPrefixes)
      THEN Rule("register_label", "heuristic", 85)
      ELSE IF StartsWith(plain, VoicePrefixes)
      THEN Rule("voice_transition", "heuristic", 85)
      ELSE IF Contains(c, "<exemple>") \/ locution_intro(c)
      THEN Rule("locution", "heuristic", 80)
      ELSE IF Contains(c, "<a ref>") /\ cross_ref_heuristic(c)
      THEN Rule("cross_reference", "heuristic", 80)
      ELSE IF StartsWith(plain, DefinitionPrefixes)
      THEN Rule("elaboration", "heuristic", 75)
      ELSE IF StartsWith(plain, FigPrefixes)
      THEN Rule("figurative", "heuristic", 90)
      ELSE IF phrase_shape(plain, indent.citations)
      THEN Rule("locution", "heuristic", 50)
      ELSE IF indent.citations # <<>>
      THEN Rule("continuation", "heuristic", 50)
      ELSE IF JoinLen(plain, FALSE) > ElaborationMin
      THEN Rule("elaboration", "heuristic", 40)
      ELSE NoRole

\* classify_heuristic: what it assigns (NoRole when it returns False).
classify_heuristic(indent) ==
  LET c == indent.content
      plain == strip_tags(c)
  IN  IF StartsWith(plain, ProverbPrefixes)
      THEN Rule("proverb", "heuristic", 90)
      ELSE IF StartsWith(plain, RegisterPrefixes)
      THEN Rule("register_label", "heuristic", 85)
      ELSE IF StartsWith(plain, VoicePrefixes)
      THEN Rule("voice_transition", "heuristic", 85)
      ELSE IF Contains(c, "<exemple>") \/ locution_intro(c)
      THEN Rule("locution", "heuristic", 80)
      ELSE IF Contains(c, "<a ref>") /\ cross_ref_heuristic(c)
      THEN Rule("cross_reference", "heuristic", 80)
      ELSE IF StartsWith(plain, DefinitionPrefixes)
      THEN Rule("elaboration", "heuristic", 75)
      ELSE IF StartsWith(plain, FigPrefixes)
      THEN Rule("figurative", "heuristic", 90)
      ELSE IF phrase_shape(plain, indent.citations)
      THEN Rule("locution", "heuristic", 60)
      ELSE IF indent.citations # <<>>
      THEN Rule("continuation", "heuristic", 50)
      ELSE IF JoinLen(plain, FALSE) > ElaborationMin
      THEN Rule("elaboration", "heuristic", 40)
      ELSE NoRole

\* classify_indent: the Indent after it.  The children are visited only
\* when neither tier matched (lines 176-181).
RECURSIVE classify_indent(_)

\* classify_indent with the heuristic tier tried first.
classify_indent_heuristic_first(indent) ==
  LET a == classify_heuristic(indent)
      b == classify_deterministic(indent)
  IN  IF a # NoRole
      THEN Classified(indent, a.role, a.method, a.confidence)
      ELSE IF b # NoRole
      THEN Classified(indent, b.role, b.method, b.confidence)
      ELSE [indent EXCEPT !.children =
              [k \in 1..Len(indent.children) |->
                 classify_indent(indent.children[k])]]

classify_indent(indent) ==
  LET a == classify_deterministic(indent)
      b == classify_heuristic(indent)
  IN  IF a # NoRole
      THEN Classified(indent, a.role, a.method, a.confidence)
      ELSE IF b # NoRole
      THEN Classified(indent, b.role, b.method, b.confidence)
      ELSE [indent EXCEPT !.children =
              [k \in 1..Len(indent.children) |->
                 classify_indent(indent.children[k])]]

\* classify_entry: every Indent of every body Variante.
classify_entry(e) ==
  [e EXCEPT !.body_variantes =
     [v \in 1..Len(e.body_variantes) |->
        [e.body_variantes[v] EXCEPT !.indents =
           [k \in 1..Len(e.body_variantes[v].indents) |->
              classify_indent(e.body_variantes[v].indents[k])]]]]

(***************************************************************************)
(* extract_locutions.py                                                    *)
(***************************************************************************)
MaxFormLen == 60

\* The place of the first comma of plain, or 0.
FirstComma(plain) ==
  IF Contains(plain, ",")
  THEN MinOf({k \in 1..Len(plain) : plain[k] = ","})
  ELSE 0

\* extract_locution with the limit of line 47 one character lower.
extract_locution_limit_59(indent) ==
  LET plain == strip_tags(indent.content)
      form == SubSeq(plain, 1, FirstComma(plain) - 1)
  IN  IF indent.role # "locution" THEN indent
      ELSE IF StartsWith(plain, ReflexiveForms) /\ MarkerCommas(plain) # {}
      THEN Classified(indent, "voice_transition", "heuristic", 90)
      ELSE IF Contains(indent.content, "<exemple>")
      THEN [indent EXCEPT !.canonical_form = <<InnerText("<exemple>")>>]
      ELSE IF ~Contains(plain, ",") THEN indent
      ELSE IF JoinLen(form, FALSE) >= MaxFormLen THEN indent
      ELSE [indent EXCEPT !.canonical_form = form]

\* extract_locution: the Indent after it.
extract_locution(indent) ==
  LET plain == strip_tags(indent.content)
      form == SubSeq(plain, 1, FirstComma(plain) - 1)
  IN  IF indent.role # "locution" THEN indent
      ELSE IF StartsWith(plain, ReflexiveForms) /\ MarkerCommas(plain) # {}
      THEN Classified(indent, "voice_transition", "heuristic", 90)
      ELSE IF Contains(indent.content, "<exemple>")
      THEN [indent EXCEPT !.canonical_form = <<InnerText("<exemple>")>>]
      ELSE IF ~Contains(plain, ",") THEN indent
      ELSE IF JoinLen(form, FALSE) > MaxFormLen THEN indent
      ELSE [indent EXCEPT !.canonical_form = form]

\* extract_all, lines 64-69: the outcome of one visited locution.
extract_outcome(indent) ==
  LET after == extract_locution(indent)
  IN  IF after.role # indent.role THEN "reclassified"
      ELSE IF after.canonical_form # <<>> THEN "extracted"
      ELSE "skipped"

\* The Indents extract_all visits: the top-level Indents of every body
\* Variante that are locutions (lines 57-61), in order.
visited_locutions(e) ==
  Flatten([v \in 1..Len(e.body_variantes) |->
             SelectSeq(e.body_variantes[v].indents,
                       LAMBDA indent : indent.role = "locution")])

\* extract_all: the counts it returns (line 74).
extract_counts(e) ==
  LET outcomes == [k \in 1..Len(visited_locutions(e)) |->
                     extract_outcome(visited_locutions(e)[k])]
      Count(o) == Cardinality({k \in 1..Len(outcomes) : outcomes[k] = o})
  IN  [extracted |-> Count("extracted"),
       reclassified |-> Count("reclassified"),
       skipped |-> Count("skipped")]

\* extract_all: the top-level Indents of every body Variante that are
\* locutions (lines 57-63).
extract_entry(e) ==
  [e EXCEPT !.body_variantes =
     [v \in 1..Len(e.body_variantes) |->
        [e.body_variantes[v] EXCEPT !.indents =
           [k \in 1..Len(e.body_variantes[v].indents) |->
              IF e.body_variantes[v].indents[k].role # "locution"
              THEN e.body_variantes[v].indents[k]
              ELSE extract_locution(e.body_variantes[v].indents[k])]]]]

(***************************************************************************)
(* collect_flags.py                                                        *)
(***************************************************************************)
\* In hundredths, as every confidence.
low_confidence_threshold == 50

low_confidence_roles ==
  {"locution", "figurative", "domain", "proverb", "cross_reference",
   "register_label", "voice_transition", "nature_label"}

large_scope_threshold == 15

\* The literal of line 122.
large_intra_threshold == 5

calibration_per_bucket == 5

calibration_seed == 42

\* A ReviewFlag.  variante and indent are the identities of the Variante and
\* of the Indent the flag was made for (its context holds variante_num and
\* indent_content), 0 where there is none; count is the num_scoped,
\* num_children or bucket_size of its context.
ReviewFlag(phase, flag_type, variante, indent, role, method, count) ==
  [phase |-> phase, flag_type |-> flag_type, variante |-> variante,
   indent |-> indent, role |-> role, method |-> method, count |-> count]

\* _all_variantes: every top-level Variante, each followed by its
\* sub_variantes.
all_variantes(e) ==
  Flatten([k \in 1..Len(e.body_variantes) |->
             <<e.body_variantes[k]>> \o e.body_variantes[k].sub_variantes])

\* The Indents of one Variante as the scans enumerate them.
scanned_in(var) ==
  [i \in 1..Len(var.indents) |->
     [variante |-> var.id, index |-> i, indent |-> var.indents[i]]]

\* The scan of lines 45-46, 71-72 and 140-141: the Indents of the Indent
\* list of every Variante of _all_variantes, in order.
scanned(e) ==
  Flatten([k \in 1..Len(all_variantes(e)) |-> scanned_in(all_variantes(e)[k])])

\* The test of line 48.
is_low_confidence(indent) ==
  /\ indent.classification_confidence # NoConfidence
  /\ indent.classification_confidence <= low_confidence_threshold
  /\ indent.role \in low_confidence_roles

\* _flag_low_confidence
flag_low_confidence(e) ==
  LET hits == SelectSeq(scanned(e), LAMBDA x : is_low_confidence(x.indent))
  IN  [k \in 1..Len(hits) |->
         ReviewFlag("phase3", "low_confidence", hits[k].variante,
                    hits[k].indent.id, hits[k].indent.role,
                    hits[k].indent.classification_method, 0)]

\* The test of line 73.
is_skipped_locution(indent) ==
  indent.role = "locution" /\ indent.canonical_form = <<>>

\* _flag_skipped_locutions
flag_skipped_locutions(e) ==
  LET hits == SelectSeq(scanned(e), LAMBDA x : is_skipped_locution(x.indent))
  IN  [k \in 1..Len(hits) |->
         ReviewFlag("phase4", "skipped_locution", hits[k].variante,
                    hits[k].indent.id, "", "", 0)]

\* scope_flag_type with "at least" for "more than".
scope_flag_type_at_least(num_scoped) ==
  IF num_scoped >= large_scope_threshold THEN "large_scope"
  ELSE "scope_decision"

\* Line 95.
scope_flag_type(num_scoped) ==
  IF num_scoped > large_scope_threshold THEN "large_scope"
  ELSE "scope_decision"

\* The test of line 122.
is_large_intra(indent) ==
  IsLabel(indent) /\ Len(indent.children) > large_intra_threshold

\* _flag_large_intra
flag_large_intra(var) ==
  LET hits == SelectSeq(scanned_in(var), LAMBDA x : is_large_intra(x.indent))
  IN  [k \in 1..Len(hits) |->
         ReviewFlag("phase5", "large_intra_scope", hits[k].variante,
                    hits[k].indent.id, hits[k].indent.role, "",
                    Len(hits[k].indent.children))]

\* _flag_scope_decisions, lines 92-114: the flags made at one top-level
\* Variante in the first loop.
flag_container(var) ==
  IF var.transition_type = "" THEN <<>>
  ELSE << ReviewFlag("phase5", scope_flag_type(Len(var.sub_variantes)),
                     var.id, 0, "", "", Len(var.sub_variantes)) >>
       \o Flatten([j \in 1..Len(var.sub_variantes) |->
                     flag_large_intra(var.sub_variantes[j])])

\* _flag_scope_decisions
flag_scope_decisions(e) ==
  Flatten([k \in 1..Len(e.body_variantes) |->
             flag_container(e.body_variantes[k])])
  \o Flatten([k \in 1..Len(e.body_variantes) |->
                flag_large_intra(e.body_variantes[k])])

\* The role and method values in the order sorted() gives their strings.
RoleOrder ==
  <<"constructional", "continuation", "cross_reference", "domain",
    "elaboration", "figurative", "locution", "nature_label", "proverb",
    "register_label", "unknown", "voice_transition">>

MethodOrder == <<"deterministic", "heuristic", "llm", "manual">>

\* The keys a bucket can have, sorted as line 149 sorts them.
sorted_keys ==
  Flatten([r \in 1..Len(RoleOrder) |->
             [m \in 1..Len(MethodOrder) |->
                [role |-> RoleOrder[r], method |-> MethodOrder[m]]]])

\* Lines 139-145: the bucket of a key, from the scanned Indents.
bucket(items, key) ==
  SelectSeq(items,
            LAMBDA x : /\ x.indent.classification_method # None
                       /\ x.indent.role = key.role
                       /\ x.indent.classification_method = key.method)

\* The generator of the random module, reduced to a state of RandomModulus
\* values: Random(seed) is the state a seed gives, randbelow(state, n) a
\* value below n and the state after it.
RandomModulus == 8

RandomStates == 0..(RandomModulus - 1)

Random(seed) == seed % RandomModulus

randbelow(state, n) ==
  [value |-> state % n, state |-> (5 * state + 3) % RandomModulus]

\* new_rng reading the generator of the process instead of seeding its own.
new_rng_global(seed, global) == global

\* Line 147: a generator of its own, seeded; the generator of the process
\* (global) is not read.
new_rng(seed, global) == Random(seed)

\* rng.sample(items, k), line 151: k picks without replacement from a pool
\* (the pick moves the last item of the pool into the place it leaves).
RECURSIVE sample(_, _, _, _)
sample(state, pool, k, result) ==
  IF k = 0 THEN [sample |-> result, state |-> state]
  ELSE LET r == randbelow(state, Len(pool))
           j == r.value + 1
       IN  sample(r.state, Front([pool EXCEPT ![j] = Last(pool)]), k - 1,
                  Append(result, pool[j]))

\* Line 150.
sample_size(items) ==
  IF Len(items) < calibration_per_bucket THEN Len(items)
  ELSE calibration_per_bucket

\* Lines 149-169: the buckets in the order of their keys.
RECURSIVE calibration_loop(_, _, _, _)
calibration_loop(all, k, state, made) ==
  IF k > Len(sorted_keys) THEN made
  ELSE LET items == bucket(all, sorted_keys[k])
           s == sample(state, items, sample_size(items), <<>>)
       IN  IF items = <<>> THEN calibration_loop(all, k + 1, state, made)
           ELSE calibration_loop(all, k + 1, s.state,
                  made \o
                  [n \in 1..Len(s.sample) |->
                     ReviewFlag("calibration", "calibration_sample",
                                s.sample[n].variante, s.sample[n].indent.id,
                                sorted_keys[k].role, sorted_keys[k].method,
                                Len(items))])

\* _flag_calibration_sample
flag_calibration_sample(e, global) ==
  calibration_loop(scanned(e), 1, new_rng(calibration_seed, global), <<>>)

\* collect_flags: the flags it returns.
collect_flags(e, global) ==
  flag_low_confidence(e) \o flag_skipped_locutions(e)
  \o flag_scope_decisions(e) \o flag_calibration_sample(e, global)

\* collect_flags_tree handing the sampler the Indent lists themselves, to
\* be shuffled in place.
collect_flags_tree_shuffling(e) ==
  [e EXCEPT !.body_variantes =
     [k \in 1..Len(e.body_variantes) |->
        [e.body_variantes[k] EXCEPT
           !.indents = [i \in 1..Len(@) |-> @[Len(@) + 1 - i]]]]]

\* collect_flags: the tree after it.  No statement of collect_flags.py
\* assigns to a field of an Entry, a Variante or an Indent, or changes one
\* of their lists.
collect_flags_tree(e) == e

(***************************************************************************)
(* The classifier, then the extractor, on one parsed Indent.               *)
(***************************************************************************)
MaxTokens == 3

\* The tokens the parsed markup is drawn from.
Alphabet ==
  ElementTokens \cup
  {"Fig.", "voy.", ",", "Prov.", "Par extension", "Absolument.", "Loc.",
   "On dit", "Garder la maison", "S'ABAISSER", "v. refl.",
   "rester chez soi", "long text"}

\* What an Indent has besides its content: citations, or a child.
Extras ==
  { [citations |-> <<>>, children |-> <<>>],
    [citations |-> <<Citation("MOL.")>>, children |-> <<>>],
    [citations |-> <<>>,
     children |-> << Indent(110, <<"Prov.", "rester chez soi">>, <<>>, <<>>) >>] }

ClassifyInit ==
  /\ \E c \in SeqsUpTo(Alphabet, MaxTokens), x \in Extras :
       entry = Entry("TEST",
                 << Variante(1, <<"rester chez soi">>,
                             << Indent(11, c, x.citations, x.children) >>) >>)
  /\ entry0 = entry
  /\ log = ScopeLog
  /\ counts = NoCounts
  /\ flags = <<>>
  /\ random_state = 0
  /\ entries = <<>>
  /\ pc = "parsed"

ClassifyEntry ==
  /\ pc = "parsed"
  /\ entry' = classify_entry(entry)
  /\ pc' = "classified"
  /\ UNCHANGED <<entry0, log, counts, flags, random_state, entries>>

ExtractAll ==
  /\ pc = "classified"
  /\ entry' = extract_entry(entry)
  /\ counts' = extract_counts(entry)
  /\ pc' = "extracted"
  /\ UNCHANGED <<entry0, log, flags, random_state, entries>>

ClassifyNext == ClassifyEntry \/ ExtractAll

SpecClassify == ClassifyInit /\ [][ClassifyNext]_vars

(***************************************************************************)
(* Properties of the inter-variante pass (SpecInter).                      *)
(***************************************************************************)
\* The identities of the Indents of a list and of all their descendants.
RECURSIVE IndentIds(_)
IndentIds(indents) ==
  UNION { {indents[k].id} \cup IndentIds(indents[k].children) :
          k \in 1..Len(indents) }

\* The Variantes of a list and of the containers in it, at every depth.
RECURSIVE AllVariantes(_)
AllVariantes(variantes) ==
  UNION { {variantes[k]} \cup AllVariantes(variantes[k].sub_variantes) :
          k \in 1..Len(variantes) }

VarianteIds(variantes) == {v.id : v \in AllVariantes(variantes)}

IndentIdsOf(variantes) ==
  UNION {IndentIds(v.indents) : v \in AllVariantes(variantes)}

IsContainer(v) == v.transition_type # ""

Body0 == entry0.body_variantes

Body == entry.body_variantes

\* The boundaries of the input list, and those among them with a scope.
Boundaries == {i \in 1..Len(Body0) : ends_in_bare_transition(Body0[i])}

ScopedBoundaries ==
  {i \in Boundaries : i < Len(Body0) /\ (i + 1) \notin Boundaries}

\* The end of the scope of boundary i: the next boundary, or the end.
NextBoundary(i) ==
  IF \E k \in Boundaries : k > i
  THEN MinOf({k \in Boundaries : k > i})
  ELSE Len(Body0) + 1

\* C1: scope_inter_variante never discards a node: every Variante and every
\* Indent reachable from body_variantes before the call (boundary label
\* Indents and their children included) is reachable after it.
C1_NoNodeDiscarded ==
  pc = "inter" =>
    /\ VarianteIds(Body0) \subseteq VarianteIds(Body)
    /\ IndentIdsOf(Body0) \subseteq IndentIdsOf(Body)

\* C2: after scope_inter_variante the non-container Variantes at top level
\* plus the Variantes held in containers number as many as the original
\* top-level Variantes, and each original Variante is there exactly once.
C2_ScopePartition ==
  pc = "inter" =>
    LET top == SelectSeq(Body, LAMBDA v : ~IsContainer(v))
        held == Flatten([k \in 1..Len(Body) |-> Body[k].sub_variantes])
        all == top \o held
    IN  /\ Len(top) + Len(held) = Len(Body0)
        /\ \A i \in 1..Len(Body0) :
             Cardinality({k \in 1..Len(all) : all[k].id = Body0[i].id}) = 1
        /\ \A k \in 1..Len(held) : ~IsContainer(held[k])

C2_Witness ==
  /\ pc = "inter"
  /\ \E k \in 1..Len(Body) : Len(Body[k].sub_variantes) >= 2
  /\ \E k \in 1..Len(Body) : ~IsContainer(Body[k]) /\ k > 1

\* What the output holds for the input Variante i: nothing when i is
\* governed (a non-boundary after some boundary); the stripped boundary and
\* its container when i is a boundary with a scope; the Variante itself
\* otherwise.
Segment(i) ==
  LET label == Last(Body0[i].indents)
      parsed == parse_strong_transition(strip_tags(label.content))
  IN  IF i \notin Boundaries
      THEN IF \E j \in Boundaries : j < i THEN <<>> ELSE << Body0[i] >>
      ELSE IF i \notin ScopedBoundaries THEN << Body0[i] >>
      ELSE << [Body0[i] EXCEPT !.indents = Front(@)],
              [id |-> 0 - Body0[i].id, content |-> <<>>, indents |-> <<>>,
               transition_type |->
                 IF parsed.matched THEN "strong" ELSE "medium",
               transition_content |-> label.content,
               transition_form |->
                 IF parsed.matched THEN parsed.form ELSE <<>>,
               transition_pos |->
                 IF parsed.matched THEN parsed.pos ELSE <<>>,
               sub_variantes |->
                 SubSeq(Body0, i + 1, NextBoundary(i) - 1)] >>

\* C3: in place of a boundary with a non-empty scope and its governed run,
\* the output holds the boundary without its last Indent, then exactly one
\* container: its sub_variantes the governed run in order, its
\* transition_content the label's content, "strong" with form and part of
\* speech exactly when the stripped label parses, "medium" without them
\* otherwise.  Every other Variante stays as it was, in order.
C3_BoundaryReplacedByContainer ==
  pc = "inter" =>
    Body = Flatten([i \in 1..Len(Body0) |-> Segment(i)])

C3_Witness ==
  /\ pc = "inter"
  /\ \E k \in 1..Len(Body) :
       /\ Body[k].transition_type = "strong"
       /\ Body[k].transition_form = <<"S'ABAISSER">>
       /\ Body[k].transition_pos = <<"v. refl.">>
  /\ \E k \in 1..Len(Body) :
       Body[k].transition_type = "medium" /\ Body[k].transition_form = <<>>

\* C4: a boundary with an empty scope (the last Variante, or one directly
\* followed by a boundary) is left untouched, its label still its last
\* Indent; no container is made for it; log.zero_scope counts it once.
C4_ZeroScopeUntouched ==
  pc = "inter" =>
    /\ log.zero_scope = Cardinality(Boundaries \ ScopedBoundaries)
    /\ \A i \in Boundaries \ ScopedBoundaries :
         \E p \in 1..Len(Body) :
           /\ Body[p] = Body0[i]
           /\ p < Len(Body) => ~IsContainer(Body[p + 1])
    /\ \A k \in 1..Len(Body) : IsContainer(Body[k]) =>
         Body[k].sub_variantes # <<>>

C4_Witness ==
  /\ pc = "inter"
  /\ log.zero_scope >= 2
  /\ 1 \in Boundaries /\ 2 \in Boundaries /\ Len(Body0) = 2

(***************************************************************************)
(* extract_locution on one Indent built by hand, as the tests build it:    *)
(* any role, and a canonical form already there only on a locution.        *)
(***************************************************************************)
\* Contents past MaxTokens, for the limit of 60 characters (a text before
\* the first comma of 60 characters, and one of 61) and for the order of
\* the tests (a reflexive head with a quoted example; a quoted example
\* after a comma).
LimitContents ==
  { <<"rester chez soi", "rester chez soi", "v. refl.", ",", "Prov.">>,
    <<"rester chez soi", "rester chez soi", "Fig.", "voy.", ",", "Prov.">>,
    <<"S'ABAISSER", ",", "v. refl.", "<exemple>">>,
    <<"Garder la maison", ",", "On dit", "<exemple>">> }

ExtractInit ==
  /\ \E c \in SeqsUpTo(Alphabet, MaxTokens) \cup LimitContents,
        role \in {"locution", "elaboration", "voice_transition"},
        form \in {<<>>, <<"S'ABAISSER">>} :
       /\ form # <<>> => role = "locution"
       /\ entry = Entry("TEST",
                    << Variante(1, <<"rester chez soi">>,
                         << [Indent(11, c, <<>>, <<>>) EXCEPT
                               !.role = role, !.canonical_form = form] >>) >>)
  /\ entry0 = entry
  /\ log = ScopeLog
  /\ counts = NoCounts
  /\ flags = <<>>
  /\ random_state = 0
  /\ entries = <<>>
  /\ pc = "built"

ExtractLocution ==
  /\ pc = "built"
  /\ entry' = [entry EXCEPT !.body_variantes[1].indents[1] =
                              extract_locution(@)]
  /\ pc' = "extracted"
  /\ UNCHANGED <<entry0, log, counts, flags, random_state, entries>>

ExtractNext == ExtractLocution

SpecExtract == ExtractInit /\ [][ExtractNext]_vars

(***************************************************************************)
(* Properties of the classifier and the extractor (SpecClassify,           *)
(* SpecExtract).                                                           *)
(***************************************************************************)
\* The Indent under test, before and now.
TheIndent0 == entry0.body_variantes[1].indents[1]

TheIndent == entry.body_variantes[1].indents[1]

\* The Indents of a list and all their descendants.
RECURSIVE IndentNodes(_)
IndentNodes(indents) ==
  UNION { {indents[k]} \cup IndentNodes(indents[k].children) :
          k \in 1..Len(indents) }

TreeIndents == UNION {IndentNodes(v.indents) : v \in AllVariantes(Body)}

Assigned(indent) ==
  Rule(indent.role, indent.classification_method,
       indent.classification_confidence)

\* C6: after classify_indent an Indent whose tag-stripped text is not empty
\* has a role other than unknown.
C6_TextGetsRole ==
  pc = "classified" =>
    (strip_tags(TheIndent.content) # <<>> => TheIndent.role # "unknown")

\* C8: after the classifier and after the extractor, on every Indent:
\* confidence is set iff method is set iff role is not unknown; a set
\* confidence lies in [0,1] (0..100 hundredths); a set method is one of the
\* four methods.
C8_ConfidenceWithMethod ==
  \A n \in TreeIndents :
    /\ (n.classification_confidence # NoConfidence)
         <=> (n.classification_method # None)
    /\ (n.classification_method # None) <=> (n.role # "unknown")
    /\ n.classification_confidence # NoConfidence =>
         n.classification_confidence \in 0..100
    /\ n.classification_method # None =>
         n.classification_method \in ClassificationMethod
    /\ n.role \in IndentRole

C8_Witness ==
  /\ pc = "extracted"
  /\ TheIndent.role = "voice_transition"
  /\ TheIndent.classification_confidence = 90
  /\ TheIndent.classification_method = "heuristic"

\* The rules in the order the claim gives them, each with whether its
\* condition holds of the Indent.
ClaimedRules(indent) ==
  LET c == indent.content
      plain == strip_tags(c)
      short_link == Contains(c, "<a ref>") /\ JoinLen(plain, FALSE) < ShortCrossRef
  IN  << <<Contains(c, "<semantique:indicateur>Fig."),
           Rule("figurative", "deterministic", 100)>>,
         <<Contains(c, "<semantique:domaine>"),
           Rule("domain", "deterministic", 100)>>,
         <<Contains(c, "<nature>"), Rule("nature_label", "deterministic", 100)>>,
         <<short_link /\ StartsWith(plain, SeePrefixes),
           Rule("cross_reference", "deterministic", 100)>>,
         <<short_link /\ EndsWithCommaVoy(plain),
           Rule("cross_reference", "deterministic", 95)>>,
         <<StartsWith(plain, ProverbPrefixes), Rule("proverb", "heuristic", 90)>>,
         <<StartsWith(plain, RegisterPrefixes),
           Rule("register_label", "heuristic", 85)>>,
         <<StartsWith(plain, VoicePrefixes),
           Rule("voice_transition", "heuristic", 85)>>,
         <<Contains(c, "<exemple>") \/ locution_intro(c),
           Rule("locution", "heuristic", 80)>>,
         <<Contains(c, "<a ref>") /\ cross_ref_heuristic(c),
           Rule("cross_reference", "heuristic", 80)>>,
         <<StartsWith(plain, DefinitionPrefixes),
           Rule("elaboration", "heuristic", 75)>>,
         <<StartsWith(plain, FigPrefixes), Rule("figurative", "heuristic", 90)>>,
         <<phrase_shape(plain, indent.citations),
           Rule("locution", "heuristic", 60)>>,
         <<indent.citations # <<>>, Rule("continuation", "heuristic", 50)>>,
         <<JoinLen(plain, FALSE) > ElaborationMin,
           Rule("elaboration", "heuristic", 40)>> >>

FirstClaimedRule(indent) ==
  LET rules == ClaimedRules(indent)
      hits == {k \in 1..Len(rules) : rules[k][1]}
  IN  IF hits = {} THEN NoRole ELSE rules[MinOf(hits)][2]

\* C7: classify_entry classifies every Indent at every depth: a nested
\* Indent whose content matches a rule carries that rule's role, method and
\* confidence, whether or not its parent was given a role.
C7_EveryDepthClassified ==
  pc = "classified" =>
    \A n \in TreeIndents :
      (classify_deterministic(n) # NoRole \/ classify_heuristic(n) # NoRole)
        => Assigned(n) = FirstClaimedRule(n)

\* C9: classify_indent gives an Indent the role, method and confidence of
\* the first rule, in the claimed order, whose condition holds, and never
\* those of a later rule; every Tier A rule comes before every Tier B rule.
C9_FirstMatchWins ==
  pc = "classified" => Assigned(TheIndent) = FirstClaimedRule(TheIndent0)

C9_Witness ==
  /\ pc = "classified"
  /\ StartsWith(strip_tags(TheIndent0.content), ProverbPrefixes)
  /\ Assigned(TheIndent) = Rule("figurative", "deterministic", 100)

\* C10: after extract_locution a non-empty canonical_form implies the role
\* locution; an Indent reclassified from locution to voice_transition ends
\* with an empty canonical_form, method heuristic and confidence 0.9.
C10_FormOnlyOnLocution ==
  pc = "extracted" =>
    /\ TheIndent.canonical_form # <<>> => TheIndent.role = "locution"
    /\ (TheIndent0.role = "locution" /\ TheIndent.role = "voice_transition") =>
         /\ TheIndent.canonical_form = <<>>
         /\ TheIndent.classification_method = "heuristic"
         /\ TheIndent.classification_confidence = 90

(***************************************************************************)
(* Properties of the intra-variante pass (SpecIntra).                      *)
(***************************************************************************)
Indents0 == entry0.body_variantes[1].indents

Indents == entry.body_variantes[1].indents

Labels0 == {k \in 1..Len(Indents0) : IsLabel(Indents0[k])}

\* The maximal run of non-label Indents right after the label at k.
RunAfter(k) ==
  LET next == IF \E j \in Labels0 : j > k
              THEN MinOf({j \in Labels0 : j > k})
              ELSE Len(Indents0) + 1
  IN  SubSeq(Indents0, k + 1, next - 1)

\* C5: after scope_intra_variante the top-level list is the original list
\* without the non-label Indents that follow some label; each label has
\* gained, after the children it had, the maximal run of non-label Indents
\* that followed it, in order; Indents before the first label stay.
C5_IntraGrouping ==
  pc = "intra" =>
    Indents =
      Flatten([k \in 1..Len(Indents0) |->
        IF k \in Labels0
        THEN << [Indents0[k] EXCEPT !.children = @ \o RunAfter(k)] >>
        ELSE IF \E j \in Labels0 : j < k THEN <<>> ELSE << Indents0[k] >>])

C5_Witness ==
  /\ pc = "intra"
  /\ Len(Indents0) = 4 /\ Len(Indents) = 2
  /\ Labels0 = {1, 3}
  /\ Len(Indents[1].children) = 2 /\ Len(Indents[2].children) = 1

(***************************************************************************)
(* The pipeline of __main__.py on one entry: classify, extract, scope,     *)
(* collect the flags; then a later collect_flags call on the same tree.    *)
(***************************************************************************)
PipeVars == 2

MaxRun == 17

\* An Indent as the parser hands it over, with identity id.  "reviewed" is
\* an Indent that carries a classification from an earlier review, which
\* the classifier finds no rule for and leaves as it is.
ParsedIndent(kind, id) ==
  CASE kind = "label" -> Indent(id, <<"Absolument.">>, <<>>, <<>>)
    [] kind = "labelkid" ->
         Indent(id, <<"Absolument.">>, <<>>,
                << Indent(10 * id, <<"Prov.">>, <<>>, <<>>) >>)
    [] kind = "nature" -> Indent(id, <<"<nature>">>, <<>>, <<>>)
    [] kind = "strong" ->
         Indent(id, <<"S'ABAISSER", ",", "v. refl.">>, <<>>, <<>>)
    [] kind = "skipped" ->
         Indent(id, <<"Loc.", "rester chez soi">>, <<>>, <<>>)
    [] kind = "phrase" ->
         Indent(id, <<"Garder la maison", ",", "rester chez soi">>,
                <<>>, <<>>)
    [] kind = "plain" -> Indent(id, <<"rester chez soi">>, <<>>, <<>>)
    [] kind = "nested" ->
         Indent(id, <<"Garder la maison">>, <<>>,
                << Indent(10 * id, <<"Loc.", "rester chez soi">>,
                          <<>>, <<>>) >>)
    [] kind = "reviewed" ->
         Classified(Indent(id, <<"Garder la maison">>, <<>>, <<>>),
                    "locution", "llm", 40)
    [] kind = "cont" ->
         Indent(id, <<"long text">>, <<Citation("MOL.")>>, <<>>)

ParsedBody(shapes) ==
  [v \in 1..Len(shapes) |->
     Variante(v, <<"rester chez soi">>,
              [k \in 1..Len(shapes[v]) |->
                 ParsedIndent(shapes[v][k], 10 * v + k)])]

Repeat(x, n) == [k \in 1..n |-> x]

\* The Indent lists of the Variantes of an entry.
PipeShapes ==
  { <<>>, <<"label">>, <<"strong">>, <<"plain">>, <<"skipped">>,
    <<"reviewed">>, <<"nested">>, <<"phrase", "cont">>,
    <<"label", "skipped">>, <<"label", "reviewed">>, <<"label", "label">>,
    <<"nature", "plain", "label">>,
    <<"label">> \o Repeat("plain", large_intra_threshold + 1),
    <<"labelkid">> \o Repeat("plain", large_intra_threshold) }

\* A label Variante and a long run of Variantes after it, then nothing, or
\* one more label Variante and the Variante it governs, or these and a last
\* label Variante that governs nothing.
LongBodies ==
  { << <<"label">> >> \o Repeat(<<"plain">>, n) \o tail :
      n \in (large_scope_threshold - 1)..MaxRun,
      tail \in { <<>>, << <<"label">>, <<"plain">> >>,
                 << <<"label">>, <<"plain">>, <<"label">> >> } }

PipelineInit ==
  /\ \E shapes \in SeqsUpTo(PipeShapes, PipeVars) \cup LongBodies :
       entry = Entry("TEST", ParsedBody(shapes))
  /\ entry0 = entry
  /\ log = ScopeLog
  /\ counts = NoCounts
  /\ flags = <<>>
  /\ random_state = 0
  /\ entries = <<>>
  /\ pc = "parsed"

ScopeAll ==
  /\ pc = "extracted"
  /\ LET r == scope_all(entry, log)
     IN  entry' = r.entry /\ log' = r.log
  /\ pc' = "scoped"
  /\ UNCHANGED <<entry0, counts, flags, random_state, entries>>

CollectFlags ==
  /\ pc = "scoped"
  /\ flags' = collect_flags(entry, random_state)
  /\ entry' = collect_flags_tree(entry)
  /\ pc' = "flagged"
  /\ UNCHANGED <<entry0, log, counts, random_state, entries>>

\* A later call on the same tree, the generator of the process being in
\* any state by then.
CollectFlagsAgain ==
  /\ pc = "flagged"
  /\ \E g \in RandomStates :
       /\ random_state' = g
       /\ flags' = collect_flags(entry, g)
  /\ entry' = collect_flags_tree(entry)
  /\ pc' = "reflagged"
  /\ UNCHANGED <<entry0, log, counts, entries>>

PipelineNext ==
  ClassifyEntry \/ ExtractAll \/ ScopeAll \/ CollectFlags \/ CollectFlagsAgain

SpecPipeline == PipelineInit /\ [][PipelineNext]_vars

(***************************************************************************)
(* Properties of the pipeline (SpecPipeline).                              *)
(***************************************************************************)
\* The Indents of a tree, at every depth of every Variante.
IndentsOfTree(e) ==
  UNION {IndentNodes(v.indents) : v \in AllVariantes(e.body_variantes)}

LocutionIds(e) == {n.id : n \in {x \in IndentsOfTree(e) : x.role = "locution"}}

\* C11: the counts extract_all returns add up to the number of Indents
\* that had role locution before the call, and the call leaves every Indent
\* whose role is not locution as it was.
C11_ExtractAllCounts ==
  [][pc = "classified" =>
       /\ counts'.extracted + counts'.reclassified + counts'.skipped
            = Cardinality(LocutionIds(entry))
       /\ \A n \in IndentsOfTree(entry) :
            n.role # "locution" => n \in IndentsOfTree(entry')]_vars

\* The flags of a type made for the Indent with identity id.
FlagsFor(flag_type, id) ==
  {k \in 1..Len(flags) : flags[k].flag_type = flag_type /\ flags[k].indent = id}

FlagsOfType(flag_type) ==
  {k \in 1..Len(flags) : flags[k].flag_type = flag_type}

C13_SkippedLocutionCoverage ==
  pc = "flagged" =>
    /\ \A n \in IndentsOfTree(entry) :
         Cardinality(FlagsFor("skipped_locution", n.id))
           = IF is_skipped_locution(n) THEN 1 ELSE 0
    /\ Cardinality(FlagsOfType("skipped_locution")) = counts.skipped

\* The scope flags made for the Variante with identity id.
ScopeFlagsFor(id) ==
  {k \in 1..Len(flags) :
     /\ flags[k].flag_type \in {"large_scope", "scope_decision"}
     /\ flags[k].variante = id}

\* C14: there is exactly one scope flag per container Variante, a
\* large_scope flag when the container governs more than 15 Variantes and a
\* scope_decision flag when it governs 15 or fewer, and no scope flag for
\* any other Variante: a zero-scope outcome makes none.
C14_OneFlagPerContainer ==
  pc = "flagged" =>
    /\ \A v \in AllVariantes(Body) :
         IF IsContainer(v)
         THEN \E k \in ScopeFlagsFor(v.id) :
                /\ ScopeFlagsFor(v.id) = {k}
                /\ flags[k].flag_type =
                     IF Len(v.sub_variantes) > 15 THEN "large_scope"
                     ELSE "scope_decision"
         ELSE ScopeFlagsFor(v.id) = {}
    /\ Cardinality(FlagsOfType("large_scope") \cup FlagsOfType("scope_decision"))
         = Cardinality({v \in AllVariantes(Body) : IsContainer(v)})

\* A large container, a small one and a zero-scope label in one entry.
C14_Witness ==
  /\ pc = "flagged"
  /\ FlagsOfType("large_scope") # {}
  /\ FlagsOfType("scope_decision") # {}
  /\ log.zero_scope > 0

\* The number of children the intra-variante pass gave an Indent: those it
\* has now beyond those it had when parsed.
GroupedUnder(n) ==
  Len(n.children)
    - Len((CHOOSE x \in IndentsOfTree(entry0) : x.id = n.id).children)

\* C15: there is exactly one large_intra_scope flag for every label Indent
\* (nature_label or voice_transition) to which the intra-variante pass
\* grouped more than 5 children, in a top-level Variante or in a container,
\* and none for any other Indent.
C15_LargeIntraScope ==
  pc = "flagged" =>
    \A n \in IndentsOfTree(entry) :
      Cardinality(FlagsFor("large_intra_scope", n.id))
        = IF IsLabel(n) /\ GroupedUnder(n) > 5 THEN 1 ELSE 0

\* The Indents of the tree that carry a (role, method) pair.
Carrying(role, method) ==
  {n.id : n \in {x \in IndentsOfTree(entry) :
                   x.role = role /\ x.classification_method = method}}

CalibrationFlagsOf(role, method) ==
  {k \in FlagsOfType("calibration_sample") :
     flags[k].role = role /\ flags[k].method = method}

MinOfTwo(a, b) == IF a < b THEN a ELSE b

\* C16: for every (role, method) pair carried by an Indent of the tree
\* there are exactly min(5, n) calibration_sample flags, n being the number
\* of Indents of the tree that carry the pair, each for a different Indent
\* of the pair; no calibration flag is for an Indent without a method.
C16_CalibrationPerBucket ==
  pc = "flagged" =>
    /\ \A role \in IndentRole, method \in ClassificationMethod :
         /\ Cardinality(CalibrationFlagsOf(role, method))
              = MinOfTwo(5, Cardinality(Carrying(role, method)))
         /\ \A k \in CalibrationFlagsOf(role, method) :
              flags[k].indent \in Carrying(role, method)
         /\ \A j, k \in CalibrationFlagsOf(role, method) :
              flags[j].indent = flags[k].indent => j = k
    /\ \A k \in FlagsOfType("calibration_sample") :
         flags[k].method \in ClassificationMethod

CalibrationFlags(fs) ==
  SelectSeq(fs, LAMBDA f : f.flag_type = "calibration_sample")

\* C17: a second collect_flags call on the same tree with the same seed
\* returns the same calibration_sample flags in the same order as the
\* first, whatever state the generator of the process is in by then.
C17_CalibrationDeterministic ==
  [][pc = "flagged" => CalibrationFlags(flags') = CalibrationFlags(flags)]_vars

\* A second call, the generator of the process in another state than at
\* the first, on a tree with a bucket larger than the sample.
C17_Witness ==
  /\ pc = "reflagged"
  /\ random_state # 0
  /\ \E k \in FlagsOfType("calibration_sample") :
       flags[k].count > calibration_per_bucket

\* C18: collect_flags leaves the tree as it was: every Entry, Variante and
\* Indent keeps its fields, its lists and their order.
C18_TreeUnchanged ==
  [][(pc = "scoped" \/ pc = "flagged") => entry' = entry]_vars

\* collect_flags has run, twice, on a tree with containers, grouped
\* children and flags of every kind of scan.
C18_Witness ==
  /\ pc = "reflagged"
  /\ \E v \in AllVariantes(Body) : IsContainer(v)
  /\ log.intra_grouped > 0
  /\ FlagsOfType("calibration_sample") # {}
  /\ FlagsOfType("skipped_locution") # {}

(***************************************************************************)
(* Idempotence of the two scope passes (SpecInter, SpecIntra).             *)
(***************************************************************************)
\* C19: scope_inter_variante applied a second time to an entry it has
\* processed leaves body_variantes, every Indent list and every container
\* as they were.
C19_InterIdempotent ==
  [][pc = "inter" => entry' = entry]_vars

\* C20: scope_intra_variante applied a second time to a Variante it has
\* processed leaves the top-level Indent list and every Indent's children
\* as they were and adds nothing to log.intra_grouped.
C20_IntraIdempotent ==
  [][pc = "intra" =>
       /\ entry' = entry
       /\ log'.intra_grouped = log.intra_grouped]_vars

\* The second application, on a Variante where the first grouped Indents
\* under two labels.
C20_Witness ==
  /\ pc = "intra2"
  /\ log.intra_grouped >= 2
  /\ Len(Indents) >= 2
  /\ Cardinality({k \in 1..Len(Indents) :
                    IsLabel(Indents[k]) /\ Indents[k].children # <<>>}) >= 2

(***************************************************************************)
(* Scope boundaries and containers after the inter-variante pass           *)
(* (SpecInter).                                                            *)
(***************************************************************************)
\* The boundary test, written out: at least one Indent, the last one a
\* voice_transition without citations.
BareLabelLast(v) ==
  /\ Len(v.indents) >= 1
  /\ v.indents[Len(v.indents)].role = "voice_transition"
  /\ Len(v.indents[Len(v.indents)].citations) = 0

InputBoundaries == {i \in 1..Len(Body0) : BareLabelLast(Body0[i])}

\* The place in the input of the Variante with the given identity.
InputPlace(id) == CHOOSE i \in 1..Len(Body0) : Body0[i].id = id

Containers == {k \in 1..Len(Body) : IsContainer(Body[k])}

\* The place in the input of the boundary that container k was made for.
BoundaryOf(k) == InputPlace(0 - Body[k].id)

\* C24: after scope_inter_variante no Variante held in a container's
\* sub_variantes is a scope boundary: a scope ends at the next boundary,
\* which stays at top level right after the container, so that
\* [b1, v2, b3, v4] becomes [b1, container(v2), b3, container(v4)].
C24_ScopeEndsAtNextBoundary ==
  pc = "inter" =>
    \A k \in Containers :
      /\ \A j \in 1..Len(Body[k].sub_variantes) :
           ~BareLabelLast(Body[k].sub_variantes[j])
      /\ k < Len(Body) =>
           /\ InputPlace(Body[k + 1].id) \in InputBoundaries
           /\ \A i \in InputBoundaries :
                i > BoundaryOf(k) => InputPlace(Body[k + 1].id) <= i

C24_Witness ==
  /\ pc = "inter"
  /\ Len(Body0) = 4
  /\ InputBoundaries = {1, 3}
  /\ Len(Body) = 4
  /\ Containers = {2, 4}
  /\ Body[2].sub_variantes = << Body0[2] >>
  /\ Body[4].sub_variantes = << Body0[4] >>

\* C25: a Variante is a scope boundary exactly when it has an Indent and
\* its last Indent is a voice_transition without citations.  Only such a
\* Variante is followed by a container, and every one that a non-boundary
\* follows is; a Variante whose last Indent is a cited voice_transition or a
\* nature_label, or that has no Indents, is in the output as it was, and
\* when the Variante before it is governed or opens a scope it is held in
\* the same container.
C25_BoundaryTest ==
  pc = "inter" =>
    /\ \A k \in Containers : BoundaryOf(k) \in InputBoundaries
    /\ \A i \in InputBoundaries :
         (i < Len(Body0) /\ (i + 1) \notin InputBoundaries) =>
           \E k \in Containers : BoundaryOf(k) = i
    /\ \A i \in (1..Len(Body0)) \ InputBoundaries :
         /\ Body0[i] \in AllVariantes(Body)
         /\ \A k \in Containers :
              (i > 1 /\ (BoundaryOf(k) = i - 1 \/
                         Body0[i - 1] \in Range(Body[k].sub_variantes))) =>
                Body0[i] \in Range(Body[k].sub_variantes)

\* A scope that runs over a Variante ending in a cited voice_transition,
\* one ending in a nature_label and one without Indents.
C25_Witness ==
  /\ pc = "inter"
  /\ Len(Body0) = 4
  /\ InputBoundaries = {1}
  /\ Body0[2].indents # <<>> /\ Last(Body0[2].indents).citations # <<>>
  /\ Last(Body0[2].indents).role = "voice_transition"
  /\ Body0[3].indents # <<>> /\ Last(Body0[3].indents).role = "nature_label"
  /\ Body0[4].indents = <<>>
  /\ Containers = {2}
  /\ Len(Body[2].sub_variantes) = 3

\* C29: after one scope_inter_variante on an entry without containers,
\* every container is at top level, has no Indents and at least one
\* sub-Variante, none of them a container; it is never first in
\* body_variantes and never directly follows a container.  So the
\* one-level walk of _all_variantes reaches every Variante of the tree,
\* each once.
C29_ContainerShape ==
  pc = "inter" =>
    /\ \A k \in Containers :
         /\ Body[k].indents = <<>>
         /\ Len(Body[k].sub_variantes) >= 1
         /\ \A j \in 1..Len(Body[k].sub_variantes) :
              /\ ~IsContainer(Body[k].sub_variantes[j])
              /\ Body[k].sub_variantes[j].sub_variantes = <<>>
         /\ k > 1
         /\ (k - 1) \notin Containers
    /\ Range(all_variantes(entry)) = AllVariantes(Body)
    /\ Len(all_variantes(entry)) = Cardinality(AllVariantes(Body))

\* A container in third place with two sub-Variantes.
C29_Witness ==
  /\ pc = "inter"
  /\ 3 \in Containers
  /\ Len(Body[3].sub_variantes) = 2
  /\ Len(all_variantes(entry)) = 5

(***************************************************************************)
(* The order of the tests of extract_locution (SpecExtract).               *)
(***************************************************************************)
\* C26: extract_locution decides a locution Indent in a fixed order.  A
\* reflexive verb-head shape is reclassified (voice_transition, heuristic,
\* 0.9) even when the content holds a quoted example; otherwise a quoted
\* example supplies the canonical form even when the text has a comma;
\* otherwise a text without a comma leaves the form as it was; otherwise
\* the text before the first comma becomes the form exactly when it has at
\* most 60 characters, and the form is left as it was at 61 or more.
C26_ExtractionOrder ==
  (pc = "extracted" /\ TheIndent0.role = "locution") =>
    LET plain == strip_tags(TheIndent0.content)
        reflexive == plain # <<>> /\ plain[1] \in ReflexiveForms
                     /\ \E k \in 2..(Len(plain) - 1) :
                          plain[k] = "," /\ plain[k + 1] \in VerbMarkers
        quoted == \E k \in 1..Len(TheIndent0.content) :
                    TheIndent0.content[k] = "<exemple>"
        commas == {k \in 1..Len(plain) : plain[k] = ","}
        before == SubSeq(plain, 1, MinOf(commas) - 1)
    IN  IF reflexive
        THEN TheIndent = [TheIndent0 EXCEPT
                            !.role = "voice_transition",
                            !.classification_method = "heuristic",
                            !.classification_confidence = 90]
        ELSE IF quoted
        THEN TheIndent = [TheIndent0 EXCEPT
                            !.canonical_form = <<"Avoir beau jeu">>]
        ELSE IF commas = {} THEN TheIndent = TheIndent0
        ELSE IF JoinLen(before, FALSE) <= 60
        THEN TheIndent = [TheIndent0 EXCEPT !.canonical_form = before]
        ELSE TheIndent = TheIndent0

\* A text before the comma of exactly 60 characters, taken as the form.
C26_Witness ==
  /\ pc = "extracted"
  /\ TheIndent0.role = "locution"
  /\ TheIndent0.canonical_form = <<>>
  /\ JoinLen(TheIndent.canonical_form, FALSE) = 60

(***************************************************************************)
(* The classifier and the low-confidence scan (SpecClassify).              *)
(***************************************************************************)
\* C28: after classify_all and then extract_all on a tree whose Indents
\* all start unclassified, no Indent with a risky role has a confidence at
\* or below 0.5; so the low-confidence scan of collect_flags finds nothing
\* on that tree, scoped or not.
C28_NoLowConfidenceFromClassifier ==
  pc = "extracted" =>
    /\ \A indent \in TreeIndents :
         indent.role \in {"locution", "figurative", "domain", "proverb",
                          "cross_reference", "register_label",
                          "voice_transition", "nature_label"} =>
           indent.classification_confidence > 50
    /\ flag_low_confidence(entry) = <<>>
    /\ flag_low_confidence(scope_all(entry, ScopeLog).entry) = <<>>

\* The risky role with the lowest confidence the classifier gives: a
\* locution by its phrase shape, at 0.6.
C28_Witness ==
  /\ pc = "extracted"
  /\ \A indent \in IndentNodes(Body0[1].indents) : indent.role = "unknown"
  /\ TheIndent.role = "locution"
  /\ TheIndent.classification_confidence = 60

(***************************************************************************)
(* scope_all applied twice: the pipeline up to the scope resolver, then    *)
(* the scope resolver once more on its own output.                         *)
(***************************************************************************)
\* scope_all called again on the entry it has processed; each call starts
\* a log of its own (line 169).
ScopeAllAgain ==
  /\ pc = "scoped"
  /\ LET r == scope_all(entry, ScopeLog)
     IN  entry' = r.entry /\ log' = r.log
  /\ pc' = "rescoped"
  /\ UNCHANGED <<entry0, counts, flags, random_state, entries>>

RescopeNext == ClassifyEntry \/ ExtractAll \/ ScopeAll \/ ScopeAllAgain

SpecRescope == PipelineInit /\ [][RescopeNext]_vars

\* C27: scope_all applied a second time to its own output changes nothing:
\* no label that received children in the first run is stripped as a
\* boundary, no new container is made, no container is nested in another.
C27_ScopeAllIdempotent ==
  [][pc = "scoped" => entry' = entry]_vars

(***************************************************************************)
(* resolve_authors.py: the author a citation's "ID." stands for.           *)
(*                                                                         *)
(* The entries of this part carry what citations_in_order walks: the       *)
(* citations of a Variante, of its Indents and of their children, of its   *)
(* rubriques, and of the rubriques of the entry.  A citation has an id,    *)
(* which stands for the object's identity.                                 *)
(***************************************************************************)
MaxCitations == 3

Authors == {"", "ID.", "MOL.", "RAC."}

CitationAt(id, author) == [id |-> id] @@ Citation(author)

Rubrique(citations, indents) == [citations |-> citations, indents |-> indents]

CitedVariante(id, citations, indents, rubriques) ==
  [citations |-> citations, rubriques |-> rubriques]
    @@ Variante(id, <<>>, indents)

CitedEntry(headword, body, rubriques) ==
  [rubriques |-> rubriques] @@ Entry(headword, body)

\* _collect_indent
RECURSIVE collect_indent(_)
collect_indent(indent) ==
  indent.citations
  \o Flatten([k \in 1..Len(indent.children) |->
                collect_indent(indent.children[k])])

\* _collect_rubrique
collect_rubrique(rubrique) ==
  rubrique.citations
  \o Flatten([k \in 1..Len(rubrique.indents) |->
                collect_indent(rubrique.indents[k])])

\* _collect_variante
collect_variante(variante) ==
  variante.citations
  \o Flatten([k \in 1..Len(variante.indents) |->
                collect_indent(variante.indents[k])])
  \o Flatten([k \in 1..Len(variante.rubriques) |->
                collect_rubrique(variante.rubriques[k])])

citations_in_order(e) ==
  Flatten([k \in 1..Len(e.body_variantes) |->
             collect_variante(e.body_variantes[k])])
  \o Flatten([k \in 1..Len(e.rubriques) |-> collect_rubrique(e.rubriques[k])])

\* next_antecedent keeping the first author of the entry.
next_antecedent_keep_first(last_author, author) ==
  IF last_author = "" THEN author ELSE last_author

\* Line 55: a citation with an author of its own becomes the antecedent.
next_antecedent(last_author, author) == author

\* resolve_authors, the loop of lines 47-58: the resolved author of every
\* citation, by its id, and the number of "ID." resolved.
RECURSIVE resolve_loop(_, _, _, _, _)
resolve_loop(all_citations, k, last_author, resolved_author, resolved) ==
  IF k > Len(all_citations)
  THEN [resolved_author |-> resolved_author, resolved |-> resolved]
  ELSE LET citation == all_citations[k]
       IN  IF citation.author = "ID." /\ last_author # ""
           THEN resolve_loop(all_citations, k + 1, last_author,
                  [resolved_author EXCEPT ![citation.id] = last_author],
                  resolved + 1)
           ELSE IF citation.author # "" /\ citation.author # "ID."
           THEN resolve_loop(all_citations, k + 1,
                  next_antecedent(last_author, citation.author),
                  [resolved_author EXCEPT ![citation.id] = citation.author],
                  resolved)
           ELSE resolve_loop(all_citations, k + 1, last_author,
                  [resolved_author EXCEPT ![citation.id] = citation.author],
                  resolved)

\* The citations of a list, each with the resolved author the loop gave it.
with_resolved(citations, r) ==
  [k \in 1..Len(citations) |->
     [citations[k] EXCEPT !.resolved_author = r[citations[k].id]]]

RECURSIVE indent_resolved(_, _)
indent_resolved(indent, r) ==
  [indent EXCEPT
     !.citations = with_resolved(@, r),
     !.children = [k \in 1..Len(@) |-> indent_resolved(@[k], r)]]

rubrique_resolved(rubrique, r) ==
  [rubrique EXCEPT
     !.citations = with_resolved(@, r),
     !.indents = [k \in 1..Len(@) |-> indent_resolved(@[k], r)]]

variante_resolved(variante, r) ==
  [variante EXCEPT
     !.citations = with_resolved(@, r),
     !.indents = [k \in 1..Len(@) |-> indent_resolved(@[k], r)],
     !.rubriques = [k \in 1..Len(@) |-> rubrique_resolved(@[k], r)]]

\* resolve_authors(entry): the entry after it, and the count it returns.
resolve_authors(e) ==
  LET all_citations == citations_in_order(e)
      ids == {all_citations[k].id : k \in 1..Len(all_citations)}
      r == resolve_loop(all_citations, 1, "", [id \in ids |-> ""], 0)
  IN  [entry |->
         [e EXCEPT
            !.body_variantes =
               [k \in 1..Len(@) |-> variante_resolved(@[k], r.resolved_author)],
            !.rubriques =
               [k \in 1..Len(@) |-> rubrique_resolved(@[k], r.resolved_author)]],
       resolved |-> r.resolved]

\* resolve_all, lines 66-67.
resolve_all(es) == [i \in 1..Len(es) |-> resolve_authors(es[i]).entry]

\* The places of a parsed entry where the citations number 1, 2, ... of its
\* text can stand: all in one Indent; the first in the Variante itself and
\* each of the others in an Indent of its own; the first in an Indent, the
\* second in its child, the others in a rubrique of the Variante and in a
\* rubrique of the entry; the first in a rubrique of the Variante, the
\* second in a rubrique of the entry, the others in an Indent of that one.
CitationLayouts == {"indent", "variante", "nested", "rubriques"}

\* The items a to b of s that there are.
Slice(s, a, b) ==
  [k \in 1..((IF b < Len(s) THEN b ELSE Len(s)) - a + 1) |-> s[a + k - 1]]

CitedBody(layout, cs) ==
  CASE layout = "indent" ->
         CitedEntry("TEST",
           << CitedVariante(1, <<>>, << Indent(11, <<>>, cs, <<>>) >>, <<>>) >>,
           <<>>)
    [] layout = "variante" ->
         CitedEntry("TEST",
           << CitedVariante(1, Slice(cs, 1, 1),
                [k \in 1..(Len(cs) - 1) |->
                   Indent(10 + k, <<>>, << cs[k + 1] >>, <<>>)],
                <<>>) >>,
           <<>>)
    [] layout = "nested" ->
         CitedEntry("TEST",
           << CitedVariante(1, <<>>,
                << Indent(11, <<>>, Slice(cs, 1, 1),
                          << Indent(110, <<>>, Slice(cs, 2, 2), <<>>) >>) >>,
                << Rubrique(Slice(cs, 3, 3), <<>>) >>) >>,
           << Rubrique(<<>>,
                << Indent(21, <<>>, Slice(cs, 4, Len(cs)), <<>>) >>) >>)
    [] layout = "rubriques" ->
         CitedEntry("TEST",
           << CitedVariante(1, <<>>, <<>>,
                << Rubrique(Slice(cs, 1, 1), <<>>) >>) >>,
           << Rubrique(Slice(cs, 2, 2),
                << Indent(21, <<>>, Slice(cs, 3, Len(cs)), <<>>) >>) >>)

\* The citations of an entry's text, in order, with the identities
\* base + 1, base + 2, ...
CitationsOfText(authors, base) ==
  [k \in 1..Len(authors) |-> CitationAt(base + k, authors[k])]

\* What a second entry of the file begins with.
SecondEntries == { <<>>, <<"ID.">>, <<"RAC.", "ID.">>, <<"", "ID.">> }

AuthorsInit ==
  /\ \E authors \in SeqsUpTo(Authors, MaxCitations),
        layout \in CitationLayouts, second \in SecondEntries :
       entries =
         << CitedBody(layout, CitationsOfText(authors, 100)) >>
         \o (IF second = <<>> THEN <<>>
             ELSE << CitedBody("indent", CitationsOfText(second, 200)) >>)
  /\ entry = Entry("TEST", <<>>)
  /\ entry0 = entry
  /\ log = ScopeLog
  /\ counts = NoCounts
  /\ flags = <<>>
  /\ random_state = 0
  /\ pc = "parsed"

ResolveAll ==
  /\ pc = "parsed"
  /\ entries' = resolve_all(entries)
  /\ pc' = "resolved"
  /\ UNCHANGED <<entry, entry0, log, counts, flags, random_state>>

AuthorsNext == ResolveAll

SpecAuthors == AuthorsInit /\ [][AuthorsNext]_vars

\* The citations of an entry, by their place in its text.
TextOrder(e) ==
  LET cs == citations_in_order(e)
  IN  [k \in 1..Len(cs) |-> CHOOSE c \in Range(cs) :
         Cardinality({d \in Range(cs) : d.id < c.id}) = k - 1]

OwnAuthor(c) == c.author # "" /\ c.author # "ID."

\* C23: after resolve_authors a citation whose author is "ID." and that
\* comes after a citation of the same entry with an author of its own has
\* the author of the nearest such citation before it as resolved_author; a
\* citation with an author of its own has that author as resolved_author
\* and is the antecedent from then on; no author of an earlier entry is
\* given to a citation of a later one.
C23_NearestAntecedent ==
  pc = "resolved" =>
    \A e \in 1..Len(entries) :
      LET cs == TextOrder(entries[e])
      IN  \A k \in 1..Len(cs) :
            LET before == {j \in 1..(k - 1) : OwnAuthor(cs[j])}
                nearest == CHOOSE j \in before : \A i \in before : i <= j
            IN  /\ OwnAuthor(cs[k]) =>
                     cs[k].resolved_author = cs[k].author
                /\ (cs[k].author = "ID." /\ before # {}) =>
                     cs[k].resolved_author = cs[nearest].author
                /\ (cs[k].author = "ID." /\ before = {}) =>
                     ~OwnAuthor([author |-> cs[k].resolved_author])

\* Two authors and then "ID.", resolved to the second; and a second entry
\* that begins with "ID.".
C23_Witness ==
  /\ pc = "resolved"
  /\ Len(entries) = 2
  /\ LET cs == TextOrder(entries[1])
     IN  /\ Len(cs) = 3
         /\ cs[1].author = "MOL." /\ cs[2].author = "RAC."
         /\ cs[3].author = "ID." /\ cs[3].resolved_author = "RAC."
  /\ LET cs == TextOrder(entries[2])
     IN  cs[1].author = "ID." /\ cs[1].resolved_author = "ID."

(***************************************************************************)
(* emit_tei.py: the xml:id of the entries written.                         *)
(*                                                                         *)
(* An identifier is a sequence of pieces of text; "_2" is the piece that   *)
(* f"{base_id}_{n}" appends for n = 2, and "&" and "amp;" are the pieces   *)
(* of the entity that escape writes for an ampersand.                      *)
(***************************************************************************)
MaxEmitted == 3

\* Entry(headword, xml_id=...), without senses.
IdEntry(xml_id) == [xml_id |-> xml_id] @@ Entry("TEST", <<>>)

\* The "_n" of line 445.
Suffix(n) ==
  CASE n = 2 -> "_2" [] n = 3 -> "_3" [] n = 4 -> "_4" [] n = 5 -> "_5"

\* xml.sax.saxutils.escape, on the pieces of an identifier.
escape(id) ==
  Flatten([k \in 1..Len(id) |->
             IF id[k] = "&" THEN <<"&", "amp;">> ELSE << id[k] >>])

\* emit_entry, lines 406-407: the value of the xml:id attribute written.
emit_entry(e) == escape(e.xml_id)

\* emit_tei, the loop of lines 441-449: the entries after it.  seen_ids maps
\* the identifiers met so far to the number of times they were met.
RECURSIVE emit_loop(_, _, _)
emit_loop(es, k, seen_ids) ==
  IF k > Len(es) THEN es
  ELSE LET base_id == es[k].xml_id
       IN  IF base_id \in DOMAIN seen_ids
           THEN emit_loop(
                  [es EXCEPT ![k].xml_id =
                     Append(base_id, Suffix(seen_ids[base_id] + 1))],
                  k + 1,
                  [seen_ids EXCEPT ![base_id] = @ + 1])
           ELSE emit_loop(es, k + 1, (base_id :> 1) @@ seen_ids)

emit_tei(es) == emit_loop(es, 1, <<>>)

\* The identifiers entries come with: make_xml_id keeps letters, digits and
\* "_" of the headword, so that "a_2" is the identifier of a headword of
\* its own; an entry built by hand can have any text.
InitialIds ==
  { <<"a">>, <<"b">>, <<"a", "_2">>, <<"&">>, <<"&", "amp;">> }

EmitInit ==
  /\ \E ids \in SeqsUpTo(InitialIds, MaxEmitted) :
       entries = [k \in 1..Len(ids) |-> IdEntry(ids[k])]
  /\ entry = Entry("TEST", <<>>)
  /\ entry0 = entry
  /\ log = ScopeLog
  /\ counts = NoCounts
  /\ flags = <<>>
  /\ random_state = 0
  /\ pc = "enriched"

EmitTei ==
  /\ pc = "enriched"
  /\ entries' = emit_tei(entries)
  /\ pc' = "emitted"
  /\ UNCHANGED <<entry, entry0, log, counts, flags, random_state>>

EmitNext == EmitTei

SpecEmit == EmitInit /\ [][EmitNext]_vars

\* C22: after emit_tei over any list of entries, whatever their xml_id
\* before the call, the xml:id values written for the entries are pairwise
\* distinct.
C22_WrittenIdsDistinct ==
  pc = "emitted" =>
    \A i, j \in 1..Len(entries) :
      i # j => emit_entry(entries[i]) # emit_entry(entries[j])

(***************************************************************************)
(* The phases over a list of entries: classify_all, extract_all, scope_all *)
(* and collect_flags as __main__.py calls them, and collect_flags called   *)
(* once per shard of the list.  The Variantes of entry number e have the   *)
(* identities 100 * e + 1, 100 * e + 2, ..., so that a flag tells the      *)
(* entry it is about.                                                       *)
(***************************************************************************)
MaxEntries == 2

ParsedBodyAt(shapes, base) ==
  [v \in 1..Len(shapes) |->
     Variante(base + v, <<"rester chez soi">>,
              [k \in 1..Len(shapes[v]) |->
                 ParsedIndent(shapes[v][k], 10 * (base + v) + k)])]

\* The bodies of the entries of a list: the Indent lists of their Variantes.
CorpusBodies ==
  { <<>>,
    << <<"plain">> >>,
    << <<"label">>, <<"plain">> >>,
    << <<"strong">>, <<"plain">>, <<"nature">>,
       <<"label", "plain", "plain", "label">> >>,
    << <<"label">>, <<"label">> >>,
    << <<"label", "plain", "plain">> >>,
    << <<"label">>, <<"label", "skipped">> >>,
    << <<"plain", "plain", "plain">>, <<"skipped">> >>,
    << <<"label">> >> \o Repeat(<<"plain">>, large_scope_threshold),
    << <<"label">> >> \o Repeat(<<"plain">>, large_scope_threshold + 1) }

RECURSIVE SumSeq(_)
SumSeq(s) == IF s = <<>> THEN 0 ELSE Head(s) + SumSeq(Tail(s))

\* classify_all: classify_entry on every entry.
classify_all(es) == [i \in 1..Len(es) |-> classify_entry(es[i])]

\* extract_all: the entries after it and the counts it returns.
extract_all(es) ==
  [entries |-> [i \in 1..Len(es) |-> extract_entry(es[i])],
   counts |->
     [extracted |-> SumSeq([i \in 1..Len(es) |-> extract_counts(es[i]).extracted]),
      reclassified |->
        SumSeq([i \in 1..Len(es) |-> extract_counts(es[i]).reclassified]),
      skipped |-> SumSeq([i \in 1..Len(es) |-> extract_counts(es[i]).skipped])]]

\* scope_all over a list, lines 169-176: one log for the whole list.
RECURSIVE scope_all_entries(_, _, _)
scope_all_entries(es, k, lg) ==
  IF k > Len(es) THEN [entries |-> es, log |-> lg]
  ELSE LET r == scope_all(es[k], lg)
       IN  scope_all_entries([es EXCEPT ![k] = r.entry], k + 1, r.log)

\* The scans of lines 44-46, 70-72 and 139-141 over a list: entry by entry.
scanned_entries(es) == Flatten([i \in 1..Len(es) |-> scanned(es[i])])

\* collect_flags over a list: the three scans entry by entry, then one
\* calibration sample over the buckets of the whole list, drawn with one
\* generator (collect_flags.py:138-151).
collect_flags_entries(es, global) ==
  Flatten([i \in 1..Len(es) |-> flag_low_confidence(es[i])])
  \o Flatten([i \in 1..Len(es) |-> flag_skipped_locutions(es[i])])
  \o Flatten([i \in 1..Len(es) |-> flag_scope_decisions(es[i])])
  \o calibration_loop(scanned_entries(es), 1,
                      new_rng(calibration_seed, global), <<>>)

\* The shards of a list cut after the places of cuts.
RECURSIVE shards(_, _)
shards(es, cuts) ==
  IF es = <<>> THEN <<>>
  ELSE LET c == IF cuts = {} THEN Len(es) ELSE MinOf(cuts)
       IN  << SubSeq(es, 1, c) >>
           \o shards(SubSeq(es, c + 1, Len(es)), {x - c : x \in cuts \ {c}})

CorpusInit ==
  /\ \E bodies \in SeqsUpTo(CorpusBodies, MaxEntries) :
       entries = [e \in 1..Len(bodies) |->
                    Entry("TEST", ParsedBodyAt(bodies[e], 100 * e))]
  /\ entry = Entry("TEST", <<>>)
  /\ entry0 = entry
  /\ log = ScopeLog
  /\ counts = NoCounts
  /\ flags = <<>>
  /\ random_state = 0
  /\ pc = "parsed"

ClassifyAllEntries ==
  /\ pc = "parsed"
  /\ entries' = classify_all(entries)
  /\ pc' = "classified"
  /\ UNCHANGED <<entry, entry0, log, counts, flags, random_state>>

ExtractAllEntries ==
  /\ pc = "classified"
  /\ entries' = extract_all(entries).entries
  /\ counts' = extract_all(entries).counts
  /\ pc' = "extracted"
  /\ UNCHANGED <<entry, entry0, log, flags, random_state>>

ScopeAllEntries ==
  /\ pc = "extracted"
  /\ LET r == scope_all_entries(entries, 1, ScopeLog)
     IN  entries' = r.entries /\ log' = r.log
  /\ pc' = "scoped"
  /\ UNCHANGED <<entry, entry0, counts, flags, random_state>>

CollectFlagsEntries ==
  /\ pc = "scoped"
  /\ flags' = collect_flags_entries(entries, random_state)
  /\ pc' = "flagged"
  /\ UNCHANGED <<entry, entry0, entries, log, counts, random_state>>

\* collect_flags called once on each shard of the list, and the lists of
\* flags concatenated in the order of the shards.
CollectFlagsSharded ==
  /\ pc = "flagged"
  /\ \E cuts \in SUBSET (1..(Len(entries) - 1)) :
       flags' = Flatten([s \in 1..Len(shards(entries, cuts)) |->
                  collect_flags_entries(shards(entries, cuts)[s],
                                        random_state)])
  /\ pc' = "sharded"
  /\ UNCHANGED <<entry, entry0, entries, log, counts, random_state>>

CorpusNext ==
  \/ ClassifyAllEntries
  \/ ExtractAllEntries
  \/ ScopeAllEntries
  \/ CollectFlagsEntries
  \/ CollectFlagsSharded

SpecCorpus == CorpusInit /\ [][CorpusNext]_vars

\* How many times a flag is in a list of flags.
TimesIn(f, fs) == Cardinality({k \in 1..Len(fs) : fs[k] = f})

\* C21: for any split of the entry list into shards, the flags of
\* collect_flags on each shard, concatenated, are the flags of collect_flags
\* on the whole list, each as many times, whatever the order; so the flags
\* of an entry do not depend on the other entries of the list.
C21_FlagsDistributeOverShards ==
  [][pc = "flagged" =>
       \A f \in Range(flags) \cup Range(flags') :
         TimesIn(f, flags') = TimesIn(f, flags)]_vars

(***************************************************************************)
(* The counters of the log scope_all returns (SpecCorpus).                 *)
(***************************************************************************)
\* The Variantes of a list of entries, containers and governed ones
\* included.
VariantesOf(es) ==
  UNION {AllVariantes(es[i].body_variantes) : i \in 1..Len(es)}

\* The governed Variantes of the containers of a type, each with its
\* container.
GovernedBy(es, type) ==
  UNION { {<<c.id, j>> : j \in 1..Len(c.sub_variantes)} :
          c \in {v \in VariantesOf(es) : v.transition_type = type} }

\* The Indents of a Variante list that are not at the top of an Indent
\* list.
ChildIdsOf(es) ==
  UNION { UNION {IndentIds(v.indents[k].children) : k \in 1..Len(v.indents)} :
          v \in VariantesOf(es) }

TopIdsOf(es) ==
  UNION { {v.indents[k].id : k \in 1..Len(v.indents)} : v \in VariantesOf(es) }

\* The boundary Variantes of before whose label is still an Indent of the
\* same Variante after.
UntouchedBoundaries(before, after) ==
  {v \in VariantesOf(before) :
     /\ BareLabelLast(v)
     /\ \E w \in VariantesOf(after) :
          w.id = v.id /\ Last(v.indents).id \in IndentIds(w.indents)}

\* C30: the log scope_all returns for a list of entries without containers:
\* strong_scoped is the number of Variantes governed by "strong" containers
\* and medium_scoped that of the Variantes governed by "medium" ones,
\* zero_scope is the number of boundary Variantes left untouched,
\* intra_grouped the number of Indents moved under a label, and
\* log.ambiguous has one item for each container that governs more than 15
\* Variantes.
C30_LogCounters ==
  [][pc = "extracted" =>
       /\ log'.strong_scoped = Cardinality(GovernedBy(entries', "strong"))
       /\ log'.medium_scoped = Cardinality(GovernedBy(entries', "medium"))
       /\ log'.zero_scope =
            Cardinality(UntouchedBoundaries(entries, entries'))
       /\ log'.intra_grouped =
            Cardinality(TopIdsOf(entries) \cap ChildIdsOf(entries'))
       /\ Len(log'.ambiguous) =
            Cardinality({c \in VariantesOf(entries') :
                           Len(c.sub_variantes) > 15})]_vars

\* Two entries, with a strong and a medium container, an untouched
\* boundary, Indents grouped under labels in both, and a scope of 16.
C30_Witness ==
  /\ pc = "scoped"
  /\ Len(entries) = 2
  /\ log.strong_scoped = 2
  /\ log.medium_scoped = 16
  /\ log.zero_scope = 1
  /\ log.intra_grouped = 2
  /\ Len(log.ambiguous) = 1

====
